---- MODULE Spec2Model ----
(***************************************************************************)
(* The CustomAllocator trait of src/src/lib.rs: the two required           *)
(* primitives (allocate, deallocate), the default methods built on them    *)
(* (allocate_zeroed, grow, grow_zeroed, shrink, by_ref) and the            *)
(* implementation of the trait for std::alloc::System.                     *)
(*                                                                         *)
(* Memory is the set of currently allocated blocks.  A block has an        *)
(* address, a physical length, the layout it was allocated with, the       *)
(* provider instance that handed it out and its bytes.  A method body is   *)
(* run statement by statement over a record m (the blocks, the primitive   *)
(* calls made so far, what the copy touched), and the action of the method *)
(* commits the record the body ends with.                                  *)
(***************************************************************************)
EXTENDS Integers, Sequences, FiniteSets, TLC

\* Bounds of the model: the largest layout size, and the most bytes a provider
\* returns beyond the requested size.
MaxSize == 2
MaxSlack == 1

\* The null address.
Null == 0

\* Two byte values: zero and a non-zero one.
Bytes == {0, 255}
Aligns == {1, 2}
MaxAlign == CHOOSE a \in Aligns : \A x \in Aligns : x <= a
Layouts == [size : 0..MaxSize, align : Aligns]
\* Provider values: 1 is the one the caller holds, 2 is another value of the type.
\* The caller makes its calls directly on the provider, or all through by_ref().
Instances == {1, 2}
Callers == {1}
Errors == {"E1", "E2"}
Vias == {"direct", "by_ref"}

\* provider: the implementer of the trait; vias: the ways the caller makes its calls;
\* live: the currently allocated blocks; pc: idle, or crashed once the process was
\* stopped; frame: the last call and what it returned; via: how the last call was
\* made; ub: undefined behaviour was met.
VARIABLES provider, vias, live, pc, frame, via, ub

vars == <<provider, vias, live, pc, frame, via, ub>>

NoLayout == [size |-> 0, align |-> 1]
NoBlock == [addr |-> Null, len |-> 0, layout |-> NoLayout, owner |-> 0, bytes |-> <<>>]
NoOutcome == [tag |-> "None", err |-> "", block |-> NoBlock]

OkOutcome(b) == [tag |-> "Ok", err |-> "", block |-> b]
ErrOutcome(e) == [tag |-> "Err", err |-> e, block |-> NoBlock]
AbortOutcome == [tag |-> "Abort", err |-> "", block |-> NoBlock]

\* The address space is cut into regions, one block per region.  The caller holds
\* one block at a time, so two regions are in use at most: the caller's block and
\* the fresh block of a resize.
RegionSize == MaxSize + MaxSlack + MaxAlign
Slots == {1, 2}
SlotOf(a) == ((a - 1) \div RegionSize) + 1
RoundUp(a, align) == ((a + align - 1) \div align) * align
AddrIn(slot, align) == RoundUp((slot - 1) * RegionSize + 1, align)

\* The blocks a provider may hand out for layout: in a region no currently
\* allocated block uses, at an address aligned to layout.align(), of one of the
\* lengths in lens, contents arbitrary.
FreshBlocks(recv, heap, layout, lens) ==
    UNION { { [addr |-> AddrIn(p[1], layout.align), len |-> p[2], layout |-> layout,
               owner |-> recv, bytes |-> bs] : bs \in [1..p[2] -> Bytes] }
            : p \in { q \in Slots \X lens : \A b \in heap : SlotOf(b.addr) # q[1] } }

\* The required method allocate as the trait documents it: Err, or a block of at
\* least layout.size() bytes, aligned, contents uninitialized.
ContractAllocate(recv, heap, layout) ==
    { ErrOutcome(e) : e \in Errors }
    \cup { OkOutcome(b) :
             b \in FreshBlocks(recv, heap, layout, layout.size .. (layout.size + MaxSlack)) }

\* GlobalAlloc::alloc of the System allocator: a null pointer, or a fresh block.
\* The adapter gives the slice the length layout.size().
SystemAlloc(recv, heap, layout) ==
    { [NoBlock EXCEPT !.layout = layout, !.owner = recv, !.len = layout.size] }
    \cup FreshBlocks(recv, heap, layout, {layout.size})

\* A variant of SystemAllocate: the adapter reports a null pointer as an error.
SystemAllocateNullIsErr(recv, heap, layout) ==
    { IF b.addr = Null THEN ErrOutcome("AllocError") ELSE OkOutcome(b)
      : b \in SystemAlloc(recv, heap, layout) }

\* impl CustomAllocator for System, allocate: the slice is built from whatever alloc
\* returned and wrapped in Ok.  slice::from_raw_parts_mut on a null pointer is
\* undefined: the build either carries the null slice on or aborts on the
\* precondition check.
SystemAllocate(recv, heap, layout) ==
    UNION { IF b.addr = Null THEN {OkOutcome(b), AbortOutcome} ELSE {OkOutcome(b)}
            : b \in SystemAlloc(recv, heap, layout) }

\* self.allocate(layout), dispatched on the implementer.
ProviderAllocate(P, recv, heap, layout) ==
    IF P = "System" THEN SystemAllocate(recv, heap, layout)
    ELSE ContractAllocate(recv, heap, layout)

BlockAt(heap, a) ==
    IF \E b \in heap : b.addr = a THEN CHOOSE b \in heap : b.addr = a ELSE NoBlock

\* self.deallocate(ptr, layout): the block leaves the currently allocated set.
\* Handing over a block that is not currently allocated via recv, or a layout
\* that does not fit it, is undefined behaviour, recorded in ub.
ProviderDeallocate(recv, heap, ptr, layout) ==
    LET b == BlockAt(heap, ptr)
        ok == b \in heap /\ b.owner = recv /\ b.layout = layout
    IN  [live |-> IF ok THEN heap \ {b} ELSE heap, ub |-> ~ok]

\* A variant of by_ref: another provider value instead of a borrow of self.
by_ref_other(self) == 3 - self

\* by_ref: returns self.
by_ref(self) == self

\* The provider instance a call reaches.
Receiver(self, v) == IF v = "by_ref" THEN by_ref(self) ELSE self

\* A variant of fill: the last byte is left as it was.
fill_keeps_last(bytes, v) == [i \in 1..Len(bytes) |-> IF i < Len(bytes) THEN v ELSE bytes[i]]

\* NonNull<[u8]>::fill(0) as used by allocate_zeroed.
fill(bytes, v) == [i \in 1..Len(bytes) |-> v]

\* A variant of ZeroedOutcome: only the requested layout.size() bytes are zeroed.
ZeroedOutcomeSizeOnly(o) ==
    IF o.tag # "Ok" THEN o
    ELSE IF o.block.addr = Null /\ o.block.len > 0 THEN AbortOutcome
    ELSE OkOutcome([o.block EXCEPT !.bytes =
                      [i \in 1..Len(@) |-> IF i <= o.block.layout.size THEN 0 ELSE @[i]]])

\* The closure of allocate_zeroed: ptr.as_mut().fill(0) over the whole returned
\* slice.  Filling a non-empty slice at the null address traps.
ZeroedOutcome(o) ==
    IF o.tag # "Ok" THEN o
    ELSE IF o.block.addr = Null /\ o.block.len > 0 THEN AbortOutcome
    ELSE OkOutcome([o.block EXCEPT !.bytes = fill(@, 0)])

\* self.allocate_zeroed(layout): self.allocate(layout).map(closure).
AllocateZeroed(P, recv, heap, layout) ==
    { ZeroedOutcome(o) : o \in ProviderAllocate(P, recv, heap, layout) }

\* The run of a method body: the blocks, undefined behaviour met, whether the
\* process was stopped, the primitive calls made, what the copy touched, the result.
NoCopy ==
    [done |-> FALSE, in_src |-> FALSE, in_dst |-> FALSE, both_live |-> FALSE,
     distinct |-> FALSE]

Start(heap) ==
    [live |-> heap, ub |-> FALSE, crashed |-> FALSE, calls |-> <<>>, copy |-> NoCopy,
     result |-> NoOutcome]

\* What an allocation that ended with o leaves in the set of blocks.
LiveAfter(heap, o) ==
    IF o.tag = "Ok" /\ o.block.addr # Null THEN heap \cup {o.block} ELSE heap

\* A call of self.allocate or self.allocate_zeroed that ended with o.
AllocCall(m, o, name) ==
    [m EXCEPT !.live = LiveAfter(@, o),
              !.crashed = (o.tag = "Abort"),
              !.calls = Append(@, name)]

\* A variant of copy_nonoverlapping: one byte short.
copy_nonoverlapping_short(src, dst, count) ==
    [i \in 1..Len(dst) |-> IF i < count /\ i <= Len(src) THEN src[i] ELSE dst[i]]

\* ptr::copy_nonoverlapping(src, dst, count) on the bytes of the two blocks.
copy_nonoverlapping(src, dst, count) ==
    [i \in 1..Len(dst) |-> IF i <= count /\ i <= Len(src) THEN src[i] ELSE dst[i]]

\* The call of copy_nonoverlapping from the block at src_addr into the block h.
\* A non-zero count to the null address traps; a count beyond either block, or a
\* block that is not allocated, is undefined behaviour.  copy keeps what held at
\* the call: the count is within the layout that fits the source (in_src) and
\* within the destination (in_dst), both blocks are allocated, they are distinct.
CopyCall(m, src_addr, h, n) ==
    IF m.crashed THEN m
    ELSE IF n > 0 /\ h.addr = Null
      THEN [m EXCEPT !.crashed = TRUE, !.calls = Append(@, "copy_nonoverlapping")]
      ELSE LET src == BlockAt(m.live, src_addr)
               dst == BlockAt(m.live, h.addr)
           IN  [m EXCEPT
                  !.live = IF n = 0 \/ dst \notin m.live THEN @
                           ELSE (@ \ {dst}) \cup
                                {[dst EXCEPT !.bytes = copy_nonoverlapping(src.bytes, @, n)]},
                  !.ub = @ \/ (n > 0 /\ (\/ src \notin m.live
                                         \/ dst \notin m.live
                                         \/ src_addr = h.addr
                                         \/ n > src.len
                                         \/ n > dst.len)),
                  !.calls = Append(@, "copy_nonoverlapping"),
                  !.copy = [done |-> TRUE,
                            in_src |-> n <= src.layout.size,
                            in_dst |-> n <= dst.len,
                            both_live |-> src \in m.live /\ dst \in m.live,
                            distinct |-> src_addr # h.addr]]

\* The call self.deallocate(ptr, layout).
DeallocCall(m, recv, ptr, layout) ==
    IF m.crashed THEN m
    ELSE LET d == ProviderDeallocate(recv, m.live, ptr, layout)
         IN  [m EXCEPT !.live = d.live, !.ub = @ \/ d.ub, !.calls = Append(@, "deallocate")]

\* Ok(new_ptr): the handle, with the bytes the block holds on return.
Returned(m, h) ==
    IF m.crashed THEN m
    ELSE [m EXCEPT !.result = OkOutcome(IF h.addr = Null THEN h ELSE BlockAt(m.live, h.addr))]

\* The body of the default allocate_zeroed, a the outcome of self.allocate(layout).
allocate_zeroed_body(heap, a) ==
    LET o == ZeroedOutcome(a)
    IN  [Start(heap) EXCEPT !.live = LiveAfter(@, o),
                            !.crashed = (o.tag = "Abort"),
                            !.calls = <<"allocate">>,
                            !.result = o]

\* The count each resize method hands to copy_nonoverlapping.
grow_count(old_layout, new_layout) == old_layout.size

grow_zeroed_count(old_layout, new_layout) == old_layout.size

\* A variant of shrink_count: one byte short.
shrink_count_short(old_layout, new_layout) ==
    IF new_layout.size > 0 THEN new_layout.size - 1 ELSE 0

\* A variant of shrink_count: the count of grow.
shrink_count_old(old_layout, new_layout) == old_layout.size

shrink_count(old_layout, new_layout) == new_layout.size

\* The body of the default grow, o the outcome of self.allocate(new_layout):
\* on Err the `?` returns it; otherwise copy, deallocate, Ok(new_ptr).
grow_body(heap, recv, ptr, old_layout, new_layout, o) ==
    LET m1 == AllocCall(Start(heap), o, "allocate")
        m2 == CopyCall(m1, ptr, o.block, grow_count(old_layout, new_layout))
        m3 == DeallocCall(m2, recv, ptr, old_layout)
    IN  IF o.tag = "Err" THEN [m1 EXCEPT !.result = o] ELSE Returned(m3, o.block)

\* A variant of grow_zeroed_body: the old block is given back on the error path too.
grow_zeroed_body_frees_on_err(heap, recv, ptr, old_layout, new_layout, o) ==
    LET m1 == AllocCall(Start(heap), o, "allocate_zeroed")
        m2 == CopyCall(m1, ptr, o.block, grow_zeroed_count(old_layout, new_layout))
        m3 == DeallocCall(m2, recv, ptr, old_layout)
    IN  IF o.tag = "Err" THEN [DeallocCall(m1, recv, ptr, old_layout) EXCEPT !.result = o]
        ELSE Returned(m3, o.block)

\* The body of the default grow_zeroed, o the outcome of self.allocate_zeroed(new_layout).
grow_zeroed_body(heap, recv, ptr, old_layout, new_layout, o) ==
    LET m1 == AllocCall(Start(heap), o, "allocate_zeroed")
        m2 == CopyCall(m1, ptr, o.block, grow_zeroed_count(old_layout, new_layout))
        m3 == DeallocCall(m2, recv, ptr, old_layout)
    IN  IF o.tag = "Err" THEN [m1 EXCEPT !.result = o] ELSE Returned(m3, o.block)

\* A variant of shrink_body: the old block is given back before the copy.
shrink_body_frees_first(heap, recv, ptr, old_layout, new_layout, o) ==
    LET m1 == AllocCall(Start(heap), o, "allocate")
        m2 == DeallocCall(m1, recv, ptr, old_layout)
        m3 == CopyCall(m2, ptr, o.block, shrink_count(old_layout, new_layout))
    IN  IF o.tag = "Err" THEN [m1 EXCEPT !.result = o] ELSE Returned(m3, o.block)

\* The body of the default shrink, o the outcome of self.allocate(new_layout).
shrink_body(heap, recv, ptr, old_layout, new_layout, o) ==
    LET m1 == AllocCall(Start(heap), o, "allocate")
        m2 == CopyCall(m1, ptr, o.block, shrink_count(old_layout, new_layout))
        m3 == DeallocCall(m2, recv, ptr, old_layout)
    IN  IF o.tag = "Err" THEN [m1 EXCEPT !.result = o] ELSE Returned(m3, o.block)

\* What the caller sees of an outcome: Ok or Err, the error, the handle.
Summ(o) == [tag |-> o.tag, err |-> o.err, addr |-> o.block.addr, len |-> o.block.len]

EmptyFrame ==
    [op |-> "none", self |-> 0, recv |-> 0, old |-> Null,
     alloc |-> Summ(NoOutcome), result |-> Summ(NoOutcome),
     calls |-> <<>>, copy |-> NoCopy]

ResizeOps == {"grow", "grow_zeroed", "shrink"}

Init ==
    /\ provider = "Contract"
    /\ vias = {"direct"}
    /\ live = {}
    /\ pc = "idle"
    /\ frame = EmptyFrame
    /\ via = "direct"
    /\ ub = FALSE

SysInit ==
    /\ provider = "System"
    /\ vias = {"direct"}
    /\ live = {}
    /\ pc = "idle"
    /\ frame = EmptyFrame
    /\ via = "direct"
    /\ ub = FALSE

RefInit ==
    /\ provider = "Contract"
    /\ vias = {"by_ref"}
    /\ live = {}
    /\ pc = "idle"
    /\ frame = EmptyFrame
    /\ via = "direct"
    /\ ub = FALSE

\* Where a call ends: the run r of the body, as the state it leaves and the frame
\* the caller gets.  b is the caller's block, a the outcome of the allocation.
End(op, self, recv, b, a, r) ==
    [live |-> r.live,
     ub |-> r.ub,
     pc |-> IF r.crashed THEN "crashed" ELSE "idle",
     frame |-> [op |-> op, self |-> self, recv |-> recv, old |-> b.addr,
                alloc |-> Summ(a), result |-> Summ(r.result), calls |-> r.calls,
                copy |-> r.copy]]

\* The ways each call can end on the provider recv, for a caller that addresses
\* the provider self: one for each outcome of the allocation the method makes.
allocate_ends(recv, self, layout) ==
    { End("allocate", self, recv, NoBlock, o,
          [AllocCall(Start(live), o, "allocate") EXCEPT !.result = o])
      : o \in ProviderAllocate(provider, recv, live, layout) }

allocate_zeroed_ends(recv, self, layout) ==
    { End("allocate_zeroed", self, recv, NoBlock, a, allocate_zeroed_body(live, a))
      : a \in ProviderAllocate(provider, recv, live, layout) }

deallocate_ends(recv, self, b) ==
    { End("deallocate", self, recv, b, NoOutcome,
          DeallocCall(Start(live), recv, b.addr, b.layout)) }

grow_ends(recv, self, b, new_layout) ==
    { End("grow", self, recv, b, o, grow_body(live, recv, b.addr, b.layout, new_layout, o))
      : o \in ProviderAllocate(provider, recv, live, new_layout) }

grow_zeroed_ends(recv, self, b, new_layout) ==
    { End("grow_zeroed", self, recv, b, o,
          grow_zeroed_body(live, recv, b.addr, b.layout, new_layout, o))
      : o \in AllocateZeroed(provider, recv, live, new_layout) }

shrink_ends(recv, self, b, new_layout) ==
    { End("shrink", self, recv, b, o,
          shrink_body(live, recv, b.addr, b.layout, new_layout, o))
      : o \in ProviderAllocate(provider, recv, live, new_layout) }

\* The call returns (or the process stops): the end e becomes the state.
Commit(e) ==
    /\ live' = e.live
    /\ ub' = (ub \/ e.ub)
    /\ pc' = e.pc
    /\ frame' = e.frame
    /\ UNCHANGED <<provider, vias>>

\* The calls, on the provider recv, of a caller that addresses the provider self.
\* The caller allocates when it holds no block, and passes a block it holds with
\* the layout it was allocated with; grow and grow_zeroed are called with
\* new_layout.size() >= old_layout.size(), shrink with new_layout.size() <=
\* old_layout.size().
allocate_on(recv, self, layout) ==
    /\ pc = "idle"
    /\ live = {}
    /\ \E e \in allocate_ends(recv, self, layout) : Commit(e)

allocate_zeroed_on(recv, self, layout) ==
    /\ pc = "idle"
    /\ live = {}
    /\ \E e \in allocate_zeroed_ends(recv, self, layout) : Commit(e)

deallocate_on(recv, self, b) ==
    /\ pc = "idle"
    /\ b \in live
    /\ b.owner = self
    /\ \E e \in deallocate_ends(recv, self, b) : Commit(e)

grow_on(recv, self, b, new_layout) ==
    /\ pc = "idle"
    /\ b \in live
    /\ b.owner = self
    /\ new_layout.size >= b.layout.size
    /\ \E e \in grow_ends(recv, self, b, new_layout) : Commit(e)

grow_zeroed_on(recv, self, b, new_layout) ==
    /\ pc = "idle"
    /\ b \in live
    /\ b.owner = self
    /\ new_layout.size >= b.layout.size
    /\ \E e \in grow_zeroed_ends(recv, self, b, new_layout) : Commit(e)

shrink_on(recv, self, b, new_layout) ==
    /\ pc = "idle"
    /\ b \in live
    /\ b.owner = self
    /\ new_layout.size <= b.layout.size
    /\ \E e \in shrink_ends(recv, self, b, new_layout) : Commit(e)

\* The calls as the caller makes them: directly on self, or through self.by_ref().
allocate(self, v, layout) ==
    via' = v /\ allocate_on(Receiver(self, v), self, layout)

allocate_zeroed(self, v, layout) ==
    via' = v /\ allocate_zeroed_on(Receiver(self, v), self, layout)

deallocate(self, v, b) ==
    via' = v /\ deallocate_on(Receiver(self, v), self, b)

grow(self, v, b, new_layout) ==
    via' = v /\ grow_on(Receiver(self, v), self, b, new_layout)

grow_zeroed(self, v, b, new_layout) ==
    via' = v /\ grow_zeroed_on(Receiver(self, v), self, b, new_layout)

shrink(self, v, b, new_layout) ==
    via' = v /\ shrink_on(Receiver(self, v), self, b, new_layout)

Next ==
    \/ \E self \in Callers, v \in vias, layout \in Layouts : allocate(self, v, layout)
    \/ \E self \in Callers, v \in vias, layout \in Layouts : allocate_zeroed(self, v, layout)
    \/ \E self \in Callers, v \in vias, b \in live : deallocate(self, v, b)
    \/ \E self \in Callers, v \in vias, b \in live, nl \in Layouts : grow(self, v, b, nl)
    \/ \E self \in Callers, v \in vias, b \in live, nl \in Layouts : grow_zeroed(self, v, b, nl)
    \/ \E self \in Callers, v \in vias, b \in live, nl \in Layouts : shrink(self, v, b, nl)

Spec == Init /\ [][Next]_vars

SysSpec == SysInit /\ [][Next]_vars

RefSpec == RefInit /\ [][Next]_vars


Range(q) == { q[i] : i \in 1..Len(q) }

AllocNames == {"allocate", "allocate_zeroed"}

\* The block the last call returned, as it is now.
NewBlock == BlockAt(live, frame.result.addr)

\* C1: when the fresh allocation of grow, grow_zeroed or shrink returns Err, the
\* method returns that same error, deallocate is not called, and the caller's
\* block is still allocated with every byte as it was.
C1_FailedResizeKeepsBlock ==
    [][(frame'.op \in ResizeOps /\ frame'.alloc.tag = "Err") =>
         LET old == BlockAt(live, frame'.old) IN
         /\ frame'.result = frame'.alloc
         /\ "deallocate" \notin Range(frame'.calls)
         /\ old \in live
         /\ old \in live'
         /\ live' = live]_vars

C1_Witness ==
    /\ frame.op \in ResizeOps
    /\ frame.result.tag = "Err"
    /\ frame.result.err = "E2"
    /\ BlockAt(live, frame.old) \in live
    /\ \E i \in 1..BlockAt(live, frame.old).len : BlockAt(live, frame.old).bytes[i] # 0

\* C2: after a successful grow or grow_zeroed, the first old_layout.size() bytes of
\* the returned block are the bytes the old block held when the call was made.
C2_GrowKeepsPrefix ==
    [][(frame'.op \in {"grow", "grow_zeroed"} /\ frame'.result.tag = "Ok") =>
         LET old == BlockAt(live, frame'.old)
             new == BlockAt(live', frame'.result.addr)
         IN  /\ old \in live
             /\ new \in live'
             /\ new.len >= old.layout.size
             /\ \A i \in 1..old.layout.size : new.bytes[i] = old.bytes[i]]_vars

C2_Witness ==
    /\ frame.op = "grow"
    /\ frame.result.tag = "Ok"
    /\ NewBlock \in live
    /\ NewBlock.layout.size = MaxSize
    /\ NewBlock.bytes[1] # 0
    /\ NewBlock.bytes[2] = 0

\* C3: after a successful grow_zeroed, every byte of the returned block from
\* old_layout.size() to its physical end is zero.
C3_GrowZeroedTailIsZero ==
    [][(frame'.op = "grow_zeroed" /\ frame'.result.tag = "Ok") =>
         LET old == BlockAt(live, frame'.old)
             new == BlockAt(live', frame'.result.addr)
         IN  /\ new \in live'
             /\ new.len = frame'.result.len
             /\ \A i \in (old.layout.size + 1)..new.len : new.bytes[i] = 0]_vars

C3_Witness ==
    /\ frame.op = "grow_zeroed"
    /\ frame.result.tag = "Ok"
    /\ NewBlock \in live
    /\ NewBlock.len > NewBlock.layout.size
    /\ NewBlock.bytes[1] # 0
    /\ NewBlock.bytes[NewBlock.len] = 0

\* C4: after a successful shrink, the first new_layout.size() bytes of the returned
\* block are the bytes the old block held when the call was made.
C4_ShrinkKeepsPrefix ==
    [][(frame'.op = "shrink" /\ frame'.result.tag = "Ok") =>
         LET old == BlockAt(live, frame'.old)
             new == BlockAt(live', frame'.result.addr)
         IN  /\ old \in live
             /\ new \in live'
             /\ new.layout.size <= old.layout.size
             /\ \A i \in 1..new.layout.size : new.bytes[i] = old.bytes[i]]_vars

C4_Witness ==
    /\ frame.op = "shrink"
    /\ frame.result.tag = "Ok"
    /\ NewBlock \in live
    /\ NewBlock.layout.size = 1
    /\ NewBlock.bytes[1] # 0

\* C5: when allocate succeeds, allocate_zeroed returns the block allocate returned
\* with every byte of its physical length zero; when allocate fails,
\* allocate_zeroed returns that error and no block is touched.
C5_AllocateZeroedIsZero ==
    [][(frame'.op = "allocate_zeroed") =>
         LET new == BlockAt(live', frame'.result.addr) IN
         /\ frame'.alloc.tag = "Ok" =>
              /\ frame'.result = frame'.alloc
              /\ new \in live'
              /\ new.len = frame'.result.len
              /\ \A i \in 1..new.len : new.bytes[i] = 0
              /\ live' = live \cup {new}
         /\ frame'.alloc.tag = "Err" =>
              /\ frame'.result = frame'.alloc
              /\ live' = live]_vars

C5_Witness ==
    /\ frame.op = "allocate_zeroed"
    /\ frame.result.tag = "Ok"
    /\ NewBlock \in live
    /\ NewBlock.len > NewBlock.layout.size
    /\ NewBlock.layout.size > 0

\* C6: a resize method calls deallocate on the old block only after the fresh
\* allocation succeeded and the copy was made, and only once; no call frees a block
\* that is not allocated; after a resize exactly one of the old and the new block
\* is allocated, the new one on Ok and the old one on Err, and nothing else changed.
C6_DeallocateOnlyAfterCopy ==
    [][/\ ub' = FALSE
       /\ (frame'.op \in ResizeOps /\ pc' = "idle") =>
            LET old == BlockAt(live, frame'.old)
                new == BlockAt(live', frame'.result.addr)
                calls == frame'.calls
            IN  /\ old \in live
                /\ \A k \in 1..Len(calls) :
                     calls[k] = "deallocate" =>
                       /\ k = 3
                       /\ calls[1] \in AllocNames
                       /\ frame'.alloc.tag = "Ok"
                       /\ calls[2] = "copy_nonoverlapping"
                       /\ frame'.copy.done
                /\ frame'.result.tag \in {"Ok", "Err"}
                /\ frame'.result.tag = "Ok" =>
                     /\ Len(calls) = 3
                     /\ calls[3] = "deallocate"
                     /\ new \in live'
                     /\ old \notin live'
                     /\ new.addr # old.addr
                     /\ live' = (live \ {old}) \cup {new}
                /\ frame'.result.tag = "Err" =>
                     /\ Len(calls) = 1
                     /\ live' = live]_vars

C6_Witness ==
    /\ frame.op \in ResizeOps
    /\ frame.result.tag = "Ok"
    /\ frame.calls[3] = "deallocate"
    /\ BlockAt(live, frame.old) \notin live
    /\ NewBlock \in live
    /\ Cardinality(live) = 1

\* C7: allocate on std::alloc::System returns either Err or a non-null block of at
\* least layout.size() bytes aligned to layout.align(), whatever alloc returned.
C7_SystemAllocateReturnsBlockOrErr ==
    (provider = "System" /\ frame.op = "allocate" /\ pc = "idle") =>
      \/ frame.result.tag = "Err"
      \/ /\ frame.result.tag = "Ok"
         /\ frame.result.addr # Null
         /\ NewBlock \in live
         /\ NewBlock.len >= NewBlock.layout.size
         /\ NewBlock.addr % NewBlock.layout.align = 0

\* C8: on std::alloc::System no method ever returns Err: allocate, allocate_zeroed,
\* grow, grow_zeroed and shrink return Ok whenever they return.
C8_SystemNeverReturnsErr ==
    provider = "System" =>
      /\ frame.result.tag # "Err"
      /\ frame.alloc.tag # "Err"
      /\ (pc = "idle" /\ frame.op \in ResizeOps \cup AllocNames) => frame.result.tag = "Ok"

C8_Witness ==
    /\ provider = "System"
    /\ frame.op \in ResizeOps
    /\ pc = "idle"
    /\ frame.result.tag = "Ok"
    /\ frame.result.addr = Null

\* C9: in every state, each call made through by_ref() can end exactly as the same
\* call made directly on the provider can end: the same result, the same blocks,
\* the same provider serving it.
C9_ByRefIsDirect ==
    pc = "idle" =>
      \A self \in Callers :
        LET r == Receiver(self, "by_ref") IN
        /\ r = self
        /\ \A layout \in Layouts :
             /\ allocate_ends(r, self, layout) = allocate_ends(self, self, layout)
             /\ allocate_zeroed_ends(r, self, layout)
                  = allocate_zeroed_ends(self, self, layout)
        /\ \A b \in live :
             /\ deallocate_ends(r, self, b) = deallocate_ends(self, self, b)
             /\ \A nl \in Layouts :
                  /\ nl.size >= b.layout.size =>
                       /\ grow_ends(r, self, b, nl) = grow_ends(self, self, b, nl)
                       /\ grow_zeroed_ends(r, self, b, nl)
                            = grow_zeroed_ends(self, self, b, nl)
                  /\ nl.size <= b.layout.size =>
                       shrink_ends(r, self, b, nl) = shrink_ends(self, self, b, nl)

C9_Witness ==
    /\ via = "by_ref"
    /\ frame.op \in ResizeOps
    /\ frame.result.tag = "Ok"
    /\ NewBlock \in live
    /\ NewBlock.owner = frame.self

\* C10: when a resize method copies, the count is at most old_layout.size() and at
\* most the length of the fresh block, and the source and the destination are two
\* distinct blocks, both allocated.
C10_CopyWithinBothBlocks ==
    (provider = "Contract" /\ frame.op \in ResizeOps /\ frame.copy.done) =>
      /\ frame.copy.in_src
      /\ frame.copy.in_dst
      /\ frame.copy.both_live
      /\ frame.copy.distinct
      /\ ub = FALSE

C10_Witness ==
    /\ provider = "Contract"
    /\ frame.op = "shrink"
    /\ frame.copy.done
    /\ frame.result.tag = "Ok"
    /\ NewBlock.len = 1
    /\ NewBlock.layout.size = 1
====
